---- MODULE Spec2Model ----
(***************************************************************************)
(* A model of main/models.py: the relational tables of the plan ledger,    *)
(* the ORM operations on them (save, full_clean + save, delete with the    *)
(* declared on_delete policies), the ClientBeneficiary.clean guard, the    *)
(* conditional unique constraint on client_beneficiary, and the            *)
(* PersonBase.save full-name derivation.                                   *)
(*                                                                         *)
(* Primary keys are positive integers; 0 stands for None / NULL in a key   *)
(* or foreign-key position.  A table is a function from the primary keys   *)
(* of its rows to the rows.  Text is a sequence of one-character strings;  *)
(* a nullable text column is a record [null, chars].                       *)
(***************************************************************************)
EXTENDS Integers, Sequences, FiniteSets, Bags, TLC

VARIABLES company, branch, personnel, plan, client, clientPlan,
          clientBeneficiary, clientPlanReinstatement, clientPlanLapse,
          clientPlanTransfer, pending, person, lastOp

tables == <<company, branch, personnel, plan, client, clientPlan,
            clientBeneficiary, clientPlanReinstatement, clientPlanLapse,
            clientPlanTransfer>>

refTables == <<company, branch, personnel, plan, client, clientPlan,
               clientPlanReinstatement, clientPlanLapse, clientPlanTransfer>>

vars == <<company, branch, personnel, plan, client, clientPlan,
          clientBeneficiary, clientPlanReinstatement, clientPlanLapse,
          clientPlanTransfer, pending, person, lastOp>>

----------------------------------------------------------------------------
(* Bounds of the model.                                                    *)

MaxCompany == 1
MaxBranch == 1
MaxPersonnel == 1
MaxPlan == 1
MaxClient == 2
MaxClientPlan == 2
MaxBeneficiary == 3
MaxEvent == 1
MaxWriter == 2
MaxLen == 3
MaxRows == 5

NULL == 0

EmptyTable == [k \in {} |-> k]

Max(S) == IF S = {} THEN 0 ELSE CHOOSE m \in S : \A n \in S : n <= m

\* AutoField: the key the storage hands to an inserted row.
NextPk(table) == Max(DOMAIN table) + 1

\* INSERT of row under key k / UPDATE of the row under key k.
Put(table, k, row) == [j \in DOMAIN table \cup {k} |-> IF j = k THEN row ELSE table[j]]

\* DELETE of the rows whose keys are in gone.
Remove(table, gone) == [j \in DOMAIN table \ gone |-> table[j]]

\* The number of rows in the tables that Create* operations fill.
RowCount ==
    Cardinality(DOMAIN company) + Cardinality(DOMAIN branch)
    + Cardinality(DOMAIN personnel) + Cardinality(DOMAIN plan)
    + Cardinality(DOMAIN client) + Cardinality(DOMAIN clientPlan)
    + Cardinality(DOMAIN clientBeneficiary) + Cardinality(DOMAIN clientPlanReinstatement)
    + Cardinality(DOMAIN clientPlanLapse) + Cardinality(DOMAIN clientPlanTransfer)

----------------------------------------------------------------------------
(* Text and PersonBase.save                                                *)

Alphabet == {"a", " "}

Text(n) == UNION {[1..m -> Alphabet] : m \in 0..n}

None == [null |-> TRUE, chars |-> <<>>]

Some(s) == [null |-> FALSE, chars |-> s]

\* Python truthiness of a nullable text attribute: None and "" are falsy.
Truthy(t) == ~t.null /\ t.chars # <<>>

\* " ".join(parts)
RECURSIVE Join(_)
Join(parts) ==
    IF parts = <<>> THEN <<>>
    ELSE IF Len(parts) = 1 THEN parts[1]
    ELSE parts[1] \o <<" ">> \o Join(Tail(parts))

\* PersonBase.save with "if self.middle_name is not None": an empty middle
\* name is joined in.
FullNameNotNone(first_name, middle_name, last_name) ==
    LET parts0 == <<first_name>>
        parts1 == IF ~middle_name.null THEN Append(parts0, middle_name.chars) ELSE parts0
        parts2 == Append(parts1, last_name)
    IN Join(parts2)

\* The body of PersonBase.save up to the call of super().save().
FullName(first_name, middle_name, last_name) ==
    LET parts0 == <<first_name>>
        parts1 == IF Truthy(middle_name) THEN Append(parts0, middle_name.chars) ELSE parts0
        parts2 == Append(parts1, last_name)
    IN Join(parts2)

----------------------------------------------------------------------------
(* The record of the operation that ran last and of how it ended.          *)

ValidationError1 == "A Client Plan can only have a maximum of 2 active beneficiaries."

ValidationError2 == "There can only be one active primary beneficiary for a Client Plan."

NoObj == [pk |-> 0, client_plan |-> 0, is_primary |-> FALSE, is_active |-> FALSE]

\* op: the operation; obj: the instance full_clean() rejected, if it did;
\* validated: whether a saved instance had passed full_clean(); result: "ok"
\* or the error raised.
Op(op, obj, validated, result) ==
    [op |-> op, obj |-> obj, validated |-> validated, result |-> result]

RowOp(op, result) == Op(op, NoObj, FALSE, result)

NoOp == Op("none", NoObj, FALSE, "ok")

----------------------------------------------------------------------------
(* ClientBeneficiary: the in-memory instance, clean() and save()           *)

\* The name parts given to the rows of the person tables.
RowName == [first_name |-> <<"a">>, middle_name |-> Some(<<>>), last_name |-> <<"a">>]

\* An instance as a caller builds it: a new one (pk = NULL), or a loaded row
\* with is_active, is_primary and client_plan assigned.
Instances ==
    [pk : {NULL} \cup DOMAIN clientBeneficiary,
     client_plan : DOMAIN clientPlan,
     is_primary : BOOLEAN,
     is_active : BOOLEAN]

\* existing_active without .exclude(pk=self.pk)
existing_active_with_self(self, rows) ==
    {k \in DOMAIN rows : /\ rows[k].client_plan = self.client_plan
                         /\ rows[k].is_active}

\* ClientBeneficiary.objects.filter(client_plan=.., is_active=True).exclude(pk=self.pk)
existing_active(self, rows) ==
    {k \in DOMAIN rows : /\ rows[k].client_plan = self.client_plan
                         /\ rows[k].is_active
                         /\ k # self.pk}

\* existing_primary without the is_active=True filter
existing_primary_any(self, rows) ==
    {k \in DOMAIN rows : /\ rows[k].client_plan = self.client_plan
                         /\ rows[k].is_primary
                         /\ k # self.pk}

\* ClientBeneficiary.objects.filter(client_plan=.., is_primary=True, is_active=True).exclude(pk=self.pk)
existing_primary(self, rows) ==
    {k \in DOMAIN rows : /\ rows[k].client_plan = self.client_plan
                         /\ rows[k].is_primary
                         /\ rows[k].is_active
                         /\ k # self.pk}

\* clean with the count compared by "> 2"
clean_off_by_one(self, rows) ==
    IF self.is_active /\ Cardinality(existing_active(self, rows)) > 2
    THEN ValidationError1
    ELSE IF self.is_active /\ self.is_primary /\ existing_primary(self, rows) # {}
    THEN ValidationError2
    ELSE "ok"

\* ClientBeneficiary.clean: the message of the ValidationError it raises, or "ok".
clean(self, rows) ==
    IF self.is_active /\ Cardinality(existing_active(self, rows)) >= 2
    THEN ValidationError1
    ELSE IF self.is_active /\ self.is_primary /\ existing_primary(self, rows) # {}
    THEN ValidationError2
    ELSE "ok"

\* A table without the constraint
unconstrained(rows) == TRUE

\* Meta.constraints: unique_active_primary_per_client_plan, as the storage
\* evaluates it on the table that a write would leave.
unique_active_primary_per_client_plan(rows) ==
    \A j, k \in DOMAIN rows :
        (/\ j # k
         /\ rows[j].client_plan = rows[k].client_plan
         /\ rows[j].is_primary /\ rows[j].is_active
         /\ rows[k].is_primary /\ rows[k].is_active) => FALSE

\* The row PersonBase.save hands to Model.save.
BeneficiaryRow(self) ==
    [client_plan |-> self.client_plan,
     is_primary |-> self.is_primary,
     is_active |-> self.is_active,
     first_name |-> RowName.first_name,
     middle_name |-> RowName.middle_name,
     last_name |-> RowName.last_name,
     full_name |-> FullName(RowName.first_name, RowName.middle_name, RowName.last_name)]

\* A new instance whose is_primary and is_active were left at their defaults.
DefaultInstances ==
    {self \in Instances : self.pk = NULL /\ self.is_primary /\ self.is_active}

\* pending is the bag of the instances that passed full_clean() and whose
\* callers have not yet called save(): one copy for each caller in flight.

\* full_clean() on an instance: clean() reads the table; on a ValidationError
\* the caller gives the write up, otherwise it goes on to save().
FullClean(self) ==
    /\ BagCardinality(pending) < MaxWriter
    /\ LET r == clean(self, clientBeneficiary) IN
        IF r = "ok"
        THEN /\ pending' = pending (+) SetToBag({self})
             /\ lastOp' = Op("clean", NoObj, TRUE, "ok")
        ELSE /\ pending' = pending
             /\ lastOp' = Op("clean", self, TRUE, r)
    /\ UNCHANGED <<tables, person>>

\* PersonBase.save -> Model.save: INSERT when the instance has no pk, UPDATE
\* of all fields otherwise; the storage raises IntegrityError when the write
\* would break the unique constraint.
SaveRow(self, validated) ==
    LET k == IF self.pk = NULL THEN NextPk(clientBeneficiary) ELSE self.pk
        rows == Put(clientBeneficiary, k, BeneficiaryRow(self))
    IN /\ k <= MaxBeneficiary
       /\ IF unique_active_primary_per_client_plan(rows)
          THEN /\ clientBeneficiary' = rows
               /\ lastOp' = Op(IF self.pk = NULL THEN "insert" ELSE "update",
                               NoObj, validated, "ok")
          ELSE /\ clientBeneficiary' = clientBeneficiary
               /\ lastOp' = Op(IF self.pk = NULL THEN "insert" ELSE "update",
                               NoObj, validated, "IntegrityError")
       /\ UNCHANGED <<refTables, person>>

\* save() of an instance that passed full_clean().
Save(self) ==
    /\ BagIn(self, pending)
    /\ pending' = pending (-) SetToBag({self})
    /\ SaveRow(self, TRUE)

\* save() of an instance on which full_clean() was never called; its caller
\* counts as one of the MaxWriter callers in flight.
SaveUnvalidated(self) ==
    /\ BagCardinality(pending) < MaxWriter
    /\ pending' = pending
    /\ SaveRow(self, FALSE)

\* full_clean() by a caller that runs while no other caller is in flight.
FullCleanAlone(self) ==
    /\ pending = EmptyBag
    /\ FullClean(self)

----------------------------------------------------------------------------
(* Model.delete: the collector follows each foreign key's on_delete        *)

\* on_delete=CASCADE from ClientPlan (beneficiaries, reinstatements, lapses,
\* transfers made) and from Client (transfers received): the rows that go
\* when the client plans in gonePlans and the clients in goneClients go.
CascadeFromClientPlan(gonePlans, goneClients) ==
    /\ clientPlan' = Remove(clientPlan, gonePlans)
    /\ clientBeneficiary' =
           Remove(clientBeneficiary,
                  {key \in DOMAIN clientBeneficiary : clientBeneficiary[key].client_plan \in gonePlans})
    /\ clientPlanReinstatement' =
           Remove(clientPlanReinstatement,
                  {key \in DOMAIN clientPlanReinstatement :
                      clientPlanReinstatement[key].client_plan \in gonePlans})
    /\ clientPlanLapse' =
           Remove(clientPlanLapse,
                  {key \in DOMAIN clientPlanLapse : clientPlanLapse[key].client_plan \in gonePlans})
    /\ clientPlanTransfer' =
           Remove(clientPlanTransfer,
                  {key \in DOMAIN clientPlanTransfer :
                      \/ clientPlanTransfer[key].from_client_plan \in gonePlans
                      \/ clientPlanTransfer[key].to_client \in goneClients})

\* Client.delete(): ClientPlan.client and ClientPlanTransfer.to_client cascade.
DeleteClient(c) ==
    /\ c \in DOMAIN client
    /\ client' = Remove(client, {c})
    /\ CascadeFromClientPlan({key \in DOMAIN clientPlan : clientPlan[key].client = c}, {c})
    /\ lastOp' = RowOp("delete_client", "ok")
    /\ UNCHANGED <<company, branch, personnel, plan, pending, person>>

\* ClientPlan.delete()
DeleteClientPlan(cp) ==
    /\ cp \in DOMAIN clientPlan
    /\ CascadeFromClientPlan({cp}, {})
    /\ lastOp' = RowOp("delete_client_plan", "ok")
    /\ UNCHANGED <<company, branch, personnel, plan, client, pending, person>>

\* Plan.delete() as if ClientPlan.plan were on_delete=CASCADE
DeletePlanCascade(p) ==
    /\ p \in DOMAIN plan
    /\ plan' = Remove(plan, {p})
    /\ CascadeFromClientPlan({key \in DOMAIN clientPlan : clientPlan[key].plan = p}, {})
    /\ lastOp' = RowOp("delete_plan", "ok")
    /\ UNCHANGED <<company, branch, personnel, client, pending, person>>

\* Plan.delete(): ClientPlan.plan is on_delete=PROTECT, the collector raises
\* ProtectedError before anything is deleted.
DeletePlan(p) ==
    /\ p \in DOMAIN plan
    /\ IF {key \in DOMAIN clientPlan : clientPlan[key].plan = p} # {}
       THEN /\ plan' = plan
            /\ lastOp' = RowOp("delete_plan", "ProtectedError")
       ELSE /\ plan' = Remove(plan, {p})
            /\ lastOp' = RowOp("delete_plan", "ok")
    /\ UNCHANGED <<company, branch, personnel, client, clientPlan, clientBeneficiary,
                   clientPlanReinstatement, clientPlanLapse, clientPlanTransfer,
                   pending, person>>

\* Personnel.delete(): ClientPlan.agent, ClientPlan.collector and
\* Personnel.parent_personnel are on_delete=SET_NULL.
DeletePersonnel(x) ==
    /\ x \in DOMAIN personnel
    /\ personnel' =
           [k \in DOMAIN personnel \ {x} |->
               [personnel[k] EXCEPT !.parent_personnel = IF @ = x THEN NULL ELSE @]]
    /\ clientPlan' =
           [k \in DOMAIN clientPlan |->
               [clientPlan[k] EXCEPT !.agent = IF @ = x THEN NULL ELSE @,
                                     !.collector = IF @ = x THEN NULL ELSE @]]
    /\ lastOp' = RowOp("delete_personnel", "ok")
    /\ UNCHANGED <<company, branch, plan, client, clientBeneficiary,
                   clientPlanReinstatement, clientPlanLapse, clientPlanTransfer,
                   pending, person>>

\* ClientPlan.branch is on_delete=DO_NOTHING: the collector takes no action on
\* the client plans that reference a deleted branch.  A storage that enforces
\* the foreign key then refuses the delete (IntegrityError, rolled back); one
\* that does not leaves the reference dangling.
DeleteBranches(op, goneCompanies, goneBranches) ==
    /\ \E enforced \in BOOLEAN :
          IF enforced /\ {key \in DOMAIN clientPlan : clientPlan[key].branch \in goneBranches} # {}
          THEN /\ UNCHANGED <<company, branch>>
               /\ lastOp' = RowOp(op, "IntegrityError")
          ELSE /\ company' = Remove(company, goneCompanies)
               /\ branch' = Remove(branch, goneBranches)
               /\ lastOp' = RowOp(op, "ok")
    /\ UNCHANGED <<personnel, plan, client, clientPlan, clientBeneficiary,
                   clientPlanReinstatement, clientPlanLapse, clientPlanTransfer,
                   pending, person>>

\* Branch.delete()
DeleteBranch(b) ==
    /\ b \in DOMAIN branch
    /\ DeleteBranches("delete_branch", {}, {b})

\* Company.delete(): Branch.company is on_delete=CASCADE.
DeleteCompany(c) ==
    /\ c \in DOMAIN company
    /\ DeleteBranches("delete_company", {c}, {key \in DOMAIN branch : branch[key].company = c})

(* The lifecycle-event models are plain models: save() on a loaded row      *)
(* updates it and delete() removes it.                                     *)

UpdateReinstatement(k, r) ==
    /\ k \in DOMAIN clientPlanReinstatement
    /\ clientPlanReinstatement' = [clientPlanReinstatement EXCEPT ![k].remarks = r]
    /\ lastOp' = RowOp("update_reinstatement", "ok")
    /\ UNCHANGED <<company, branch, personnel, plan, client, clientPlan,
                   clientBeneficiary, clientPlanLapse, clientPlanTransfer, pending, person>>

UpdateLapse(k, r) ==
    /\ k \in DOMAIN clientPlanLapse
    /\ clientPlanLapse' = [clientPlanLapse EXCEPT ![k].reason = r]
    /\ lastOp' = RowOp("update_lapse", "ok")
    /\ UNCHANGED <<company, branch, personnel, plan, client, clientPlan,
                   clientBeneficiary, clientPlanReinstatement, clientPlanTransfer,
                   pending, person>>

UpdateTransfer(k, r) ==
    /\ k \in DOMAIN clientPlanTransfer
    /\ clientPlanTransfer' = [clientPlanTransfer EXCEPT ![k].reason = r]
    /\ lastOp' = RowOp("update_transfer", "ok")
    /\ UNCHANGED <<company, branch, personnel, plan, client, clientPlan,
                   clientBeneficiary, clientPlanReinstatement, clientPlanLapse,
                   pending, person>>

DeleteReinstatement(k) ==
    /\ k \in DOMAIN clientPlanReinstatement
    /\ clientPlanReinstatement' = Remove(clientPlanReinstatement, {k})
    /\ lastOp' = RowOp("delete_reinstatement", "ok")
    /\ UNCHANGED <<company, branch, personnel, plan, client, clientPlan,
                   clientBeneficiary, clientPlanLapse, clientPlanTransfer, pending, person>>

DeleteLapse(k) ==
    /\ k \in DOMAIN clientPlanLapse
    /\ clientPlanLapse' = Remove(clientPlanLapse, {k})
    /\ lastOp' = RowOp("delete_lapse", "ok")
    /\ UNCHANGED <<company, branch, personnel, plan, client, clientPlan,
                   clientBeneficiary, clientPlanReinstatement, clientPlanTransfer,
                   pending, person>>

DeleteTransfer(k) ==
    /\ k \in DOMAIN clientPlanTransfer
    /\ clientPlanTransfer' = Remove(clientPlanTransfer, {k})
    /\ lastOp' = RowOp("delete_transfer", "ok")
    /\ UNCHANGED <<company, branch, personnel, plan, client, clientPlan,
                   clientBeneficiary, clientPlanReinstatement, clientPlanLapse,
                   pending, person>>

----------------
(* PersonBase.save on an instance of Client, ClientBeneficiary, Personnel  *)

PersonKinds == {"Client", "ClientBeneficiary", "Personnel"}

NoPerson == [kind |-> "Client", first_name |-> <<>>, middle_name |-> None,
             last_name |-> <<>>, full_name |-> <<>>]

PersonInstances ==
    [kind : PersonKinds,
     first_name : Text(MaxLen),
     middle_name : {None} \cup {Some(s) : s \in Text(MaxLen)},
     last_name : Text(MaxLen),
     full_name : Text(1)]

SavePerson ==
    /\ person' = [person EXCEPT !.full_name =
                      FullName(person.first_name, person.middle_name, person.last_name)]
    /\ lastOp' = Op(IF lastOp.op = "save_person" THEN "save_person_again" ELSE "save_person",
                     NoObj, FALSE, "ok")
    /\ UNCHANGED <<tables, pending>>

----------------------------------------------------------------------------
(* Rows of the other tables, created by Model.save with the field defaults *)

\* The row PersonBase.save hands to Model.save for a Client or a Personnel.
PersonRow ==
    [first_name |-> RowName.first_name,
     middle_name |-> RowName.middle_name,
     last_name |-> RowName.last_name,
     full_name |-> FullName(RowName.first_name, RowName.middle_name, RowName.last_name)]

ClientPlanStatus ==
    {"active", "lapsed", "reinstated", "transferred", "assigned", "cancelled", "completed"}

\* A ClientPlan row as ClientPlan(...).save() stores it: status takes its default.
ClientPlanRow(c, p, a, col, b) ==
    [client |-> c, plan |-> p, agent |-> a, collector |-> col, branch |-> b,
     status |-> "active"]

\* The values of a free-text column (reason, remarks).
Remarks == {"r1", "r2"}

CreateCompany ==
    /\ NextPk(company) <= MaxCompany
    /\ RowCount < MaxRows
    /\ company' = Put(company, NextPk(company), [is_active |-> TRUE])
    /\ lastOp' = RowOp("create_company", "ok")
    /\ UNCHANGED <<branch, personnel, plan, client, clientPlan, clientBeneficiary,
                   clientPlanReinstatement, clientPlanLapse, clientPlanTransfer,
                   pending, person>>

CreateBranch(c) ==
    /\ NextPk(branch) <= MaxBranch
    /\ RowCount < MaxRows
    /\ c \in DOMAIN company
    /\ branch' = Put(branch, NextPk(branch), [company |-> c])
    /\ lastOp' = RowOp("create_branch", "ok")
    /\ UNCHANGED <<company, personnel, plan, client, clientPlan, clientBeneficiary,
                   clientPlanReinstatement, clientPlanLapse, clientPlanTransfer,
                   pending, person>>

CreatePersonnel(parent) ==
    /\ NextPk(personnel) <= MaxPersonnel
    /\ RowCount < MaxRows
    /\ parent \in {NULL} \cup DOMAIN personnel
    /\ personnel' = Put(personnel, NextPk(personnel),
                        [parent_personnel |-> parent, full_name |-> PersonRow.full_name])
    /\ lastOp' = RowOp("create_personnel", "ok")
    /\ UNCHANGED <<company, branch, plan, client, clientPlan, clientBeneficiary,
                   clientPlanReinstatement, clientPlanLapse, clientPlanTransfer,
                   pending, person>>

CreatePlan ==
    /\ NextPk(plan) <= MaxPlan
    /\ RowCount < MaxRows
    /\ plan' = Put(plan, NextPk(plan), [is_active |-> TRUE])
    /\ lastOp' = RowOp("create_plan", "ok")
    /\ UNCHANGED <<company, branch, personnel, client, clientPlan, clientBeneficiary,
                   clientPlanReinstatement, clientPlanLapse, clientPlanTransfer,
                   pending, person>>

CreateClient ==
    /\ NextPk(client) <= MaxClient
    /\ RowCount < MaxRows
    /\ client' = Put(client, NextPk(client), PersonRow)
    /\ lastOp' = RowOp("create_client", "ok")
    /\ UNCHANGED <<company, branch, personnel, plan, clientPlan, clientBeneficiary,
                   clientPlanReinstatement, clientPlanLapse, clientPlanTransfer,
                   pending, person>>

CreateClientPlan(c, p, a, col, b) ==
    /\ NextPk(clientPlan) <= MaxClientPlan
    /\ RowCount < MaxRows
    /\ c \in DOMAIN client
    /\ p \in DOMAIN plan
    /\ a \in {NULL} \cup DOMAIN personnel
    /\ col \in {NULL} \cup DOMAIN personnel
    /\ b \in {NULL} \cup DOMAIN branch
    /\ clientPlan' = Put(clientPlan, NextPk(clientPlan), ClientPlanRow(c, p, a, col, b))
    /\ lastOp' = RowOp("create_client_plan", "ok")
    /\ UNCHANGED <<company, branch, personnel, plan, client, clientBeneficiary,
                   clientPlanReinstatement, clientPlanLapse, clientPlanTransfer,
                   pending, person>>

\* A status change that clears the lapse rows of the client plan
SetStatusClearsLapses(cp, s) ==
    /\ cp \in DOMAIN clientPlan
    /\ s \in ClientPlanStatus
    /\ clientPlan' = [clientPlan EXCEPT ![cp].status = s]
    /\ clientPlanLapse' =
           Remove(clientPlanLapse, {key \in DOMAIN clientPlanLapse : clientPlanLapse[key].client_plan = cp})
    /\ lastOp' = RowOp("set_status", "ok")
    /\ UNCHANGED <<company, branch, personnel, plan, client, clientBeneficiary,
                   clientPlanReinstatement, clientPlanTransfer, pending, person>>

\* client_plan.status = s; client_plan.save(): no transition table is consulted.
SetStatus(cp, s) ==
    /\ cp \in DOMAIN clientPlan
    /\ s \in ClientPlanStatus
    /\ clientPlan' = [clientPlan EXCEPT ![cp].status = s]
    /\ lastOp' = RowOp("set_status", "ok")
    /\ UNCHANGED <<company, branch, personnel, plan, client, clientBeneficiary,
                   clientPlanReinstatement, clientPlanLapse, clientPlanTransfer,
                   pending, person>>

CreateReinstatement(cp, r) ==
    /\ NextPk(clientPlanReinstatement) <= MaxEvent
    /\ RowCount < MaxRows
    /\ cp \in DOMAIN clientPlan
    /\ clientPlanReinstatement' =
           Put(clientPlanReinstatement, NextPk(clientPlanReinstatement),
               [client_plan |-> cp, remarks |-> r])
    /\ lastOp' = RowOp("create_reinstatement", "ok")
    /\ UNCHANGED <<company, branch, personnel, plan, client, clientPlan,
                   clientBeneficiary, clientPlanLapse, clientPlanTransfer, pending, person>>

\* A lapse row whose creation also marks the client plan lapsed
CreateLapseSetsStatus(cp, r) ==
    /\ NextPk(clientPlanLapse) <= MaxEvent
    /\ RowCount < MaxRows
    /\ cp \in DOMAIN clientPlan
    /\ clientPlanLapse' =
           Put(clientPlanLapse, NextPk(clientPlanLapse), [client_plan |-> cp, reason |-> r])
    /\ clientPlan' = [clientPlan EXCEPT ![cp].status = "lapsed"]
    /\ lastOp' = RowOp("create_lapse", "ok")
    /\ UNCHANGED <<company, branch, personnel, plan, client,
                   clientBeneficiary, clientPlanReinstatement, clientPlanTransfer,
                   pending, person>>

CreateLapse(cp, r) ==
    /\ NextPk(clientPlanLapse) <= MaxEvent
    /\ RowCount < MaxRows
    /\ cp \in DOMAIN clientPlan
    /\ clientPlanLapse' =
           Put(clientPlanLapse, NextPk(clientPlanLapse), [client_plan |-> cp, reason |-> r])
    /\ lastOp' = RowOp("create_lapse", "ok")
    /\ UNCHANGED <<company, branch, personnel, plan, client, clientPlan,
                   clientBeneficiary, clientPlanReinstatement, clientPlanTransfer,
                   pending, person>>

CreateTransfer(cp, c, r) ==
    /\ NextPk(clientPlanTransfer) <= MaxEvent
    /\ RowCount < MaxRows
    /\ cp \in DOMAIN clientPlan
    /\ c \in DOMAIN client
    /\ clientPlanTransfer' =
           Put(clientPlanTransfer, NextPk(clientPlanTransfer),
               [from_client_plan |-> cp, to_client |-> c, reason |-> r])
    /\ lastOp' = RowOp("create_transfer", "ok")
    /\ UNCHANGED <<company, branch, personnel, plan, client, clientPlan,
                   clientBeneficiary, clientPlanReinstatement, clientPlanLapse,
                   pending, person>>

----------------
(* Specifications                                                          *)

\* A ledger with one client, one plan and the client's plans, no beneficiary.
InitLedger ==
    /\ company = EmptyTable /\ branch = EmptyTable /\ personnel = EmptyTable
    /\ plan = Put(EmptyTable, 1, [is_active |-> TRUE])
    /\ client = Put(EmptyTable, 1, PersonRow)
    /\ clientPlan = [k \in 1..MaxClientPlan |-> ClientPlanRow(1, 1, NULL, NULL, NULL)]
    /\ clientBeneficiary = EmptyTable
    /\ clientPlanReinstatement = EmptyTable
    /\ clientPlanLapse = EmptyTable
    /\ clientPlanTransfer = EmptyTable
    /\ pending = EmptyBag
    /\ person = NoPerson
    /\ lastOp = NoOp

\* Callers of full_clean() + save() and of save() alone, interleaved.
Next ==
    \/ \E self \in Instances : FullClean(self)
    \/ \E self \in BagToSet(pending) : Save(self)
    \/ \E self \in Instances : SaveUnvalidated(self)

Spec == InitLedger /\ [][Next]_vars

\* Callers that all validate, interleaved.
NextValidated ==
    \/ \E self \in Instances : FullClean(self)
    \/ \E self \in BagToSet(pending) : Save(self)

SpecValidated == InitLedger /\ [][NextValidated]_vars

\* Callers that all validate, one at a time.
NextSeq ==
    \/ \E self \in Instances : FullCleanAlone(self)
    \/ \E self \in BagToSet(pending) : Save(self)

SpecSeq == InitLedger /\ [][NextSeq]_vars

InitName ==
    /\ company = EmptyTable /\ branch = EmptyTable /\ personnel = EmptyTable
    /\ plan = EmptyTable /\ client = EmptyTable
    /\ clientPlan = EmptyTable
    /\ clientBeneficiary = EmptyTable
    /\ clientPlanReinstatement = EmptyTable
    /\ clientPlanLapse = EmptyTable
    /\ clientPlanTransfer = EmptyTable
    /\ pending = EmptyBag
    /\ person \in PersonInstances
    /\ lastOp = NoOp

NextName == SavePerson

SpecName == InitName /\ [][NextName]_vars

\* The empty database.
InitEmpty ==
    /\ company = EmptyTable /\ branch = EmptyTable /\ personnel = EmptyTable
    /\ plan = EmptyTable /\ client = EmptyTable
    /\ clientPlan = EmptyTable
    /\ clientBeneficiary = EmptyTable
    /\ clientPlanReinstatement = EmptyTable
    /\ clientPlanLapse = EmptyTable
    /\ clientPlanTransfer = EmptyTable
    /\ pending = EmptyBag
    /\ person = NoPerson
    /\ lastOp = NoOp

\* Creation of rows of every table and deletion along every foreign key.
NextDelete ==
    \/ CreateCompany
    \/ \E c \in DOMAIN company : CreateBranch(c)
    \/ \E x \in {NULL} \cup DOMAIN personnel : CreatePersonnel(x)
    \/ CreatePlan
    \/ CreateClient
    \/ \E c \in DOMAIN client, p \in DOMAIN plan,
          a, col \in {NULL} \cup DOMAIN personnel, b \in {NULL} \cup DOMAIN branch :
          CreateClientPlan(c, p, a, col, b)
    \/ \E self \in DefaultInstances : RowCount < MaxRows /\ SaveUnvalidated(self)
    \/ \E cp \in DOMAIN clientPlan : CreateReinstatement(cp, "r1")
    \/ \E cp \in DOMAIN clientPlan : CreateLapse(cp, "r1")
    \/ \E cp \in DOMAIN clientPlan, c \in DOMAIN client : CreateTransfer(cp, c, "r1")
    \/ \E c \in DOMAIN company : DeleteCompany(c)
    \/ \E b \in DOMAIN branch : DeleteBranch(b)
    \/ \E x \in DOMAIN personnel : DeletePersonnel(x)
    \/ \E p \in DOMAIN plan : DeletePlan(p)
    \/ \E c \in DOMAIN client : DeleteClient(c)
    \/ \E cp \in DOMAIN clientPlan : DeleteClientPlan(cp)

SpecDelete == InitEmpty /\ [][NextDelete]_vars

\* The life of client plans: status changes and the creation of
\* lifecycle-event rows.
NextLifecycle ==
    \/ CreatePlan
    \/ CreateClient
    \/ \E c \in DOMAIN client, p \in DOMAIN plan : CreateClientPlan(c, p, NULL, NULL, NULL)
    \/ \E cp \in DOMAIN clientPlan, s \in ClientPlanStatus : SetStatus(cp, s)
    \/ \E cp \in DOMAIN clientPlan : CreateReinstatement(cp, "r1")
    \/ \E cp \in DOMAIN clientPlan : CreateLapse(cp, "r1")
    \/ \E cp \in DOMAIN clientPlan, c \in DOMAIN client : CreateTransfer(cp, c, "r1")
    \/ \E cp \in DOMAIN clientPlan : DeleteClientPlan(cp)
    \/ \E c \in DOMAIN client : DeleteClient(c)

SpecLifecycle == InitEmpty /\ [][NextLifecycle]_vars

\* The history of client plans: every operation on lifecycle-event rows and
\* on the client plans and clients they reference.
NextHistory ==
    \/ CreatePlan
    \/ CreateClient
    \/ \E c \in DOMAIN client, p \in DOMAIN plan : CreateClientPlan(c, p, NULL, NULL, NULL)
    \/ \E cp \in DOMAIN clientPlan : SetStatus(cp, "lapsed")
    \/ \E cp \in DOMAIN clientPlan, r \in Remarks : CreateReinstatement(cp, r)
    \/ \E cp \in DOMAIN clientPlan, r \in Remarks : CreateLapse(cp, r)
    \/ \E cp \in DOMAIN clientPlan, c \in DOMAIN client, r \in Remarks : CreateTransfer(cp, c, r)
    \/ \E k \in DOMAIN clientPlanReinstatement, r \in Remarks : UpdateReinstatement(k, r)
    \/ \E k \in DOMAIN clientPlanLapse, r \in Remarks : UpdateLapse(k, r)
    \/ \E k \in DOMAIN clientPlanTransfer, r \in Remarks : UpdateTransfer(k, r)
    \/ \E k \in DOMAIN clientPlanReinstatement : DeleteReinstatement(k)
    \/ \E k \in DOMAIN clientPlanLapse : DeleteLapse(k)
    \/ \E k \in DOMAIN clientPlanTransfer : DeleteTransfer(k)
    \/ \E cp \in DOMAIN clientPlan : DeleteClientPlan(cp)
    \/ \E c \in DOMAIN client : DeleteClient(c)

SpecHistory == InitEmpty /\ [][NextHistory]_vars

----------------------------------------------------------------------------
(* Properties                                                              *)

\* The active beneficiaries of client plan p.
ActiveOf(p) ==
    {k \in DOMAIN clientBeneficiary :
        clientBeneficiary[k].client_plan = p /\ clientBeneficiary[k].is_active}

\* The active primary beneficiaries of client plan p.
ActivePrimaryOf(p) ==
    {k \in ActiveOf(p) : clientBeneficiary[k].is_primary}

\* The active beneficiaries that share obj's client plan, obj itself left out.
OtherActive(obj) == ActiveOf(obj.client_plan) \ {obj.pk}

\* C1: when every create and update of a beneficiary is validated by clean and
\* the writes run one at a time, no client plan ever has more than 2 active
\* beneficiaries.
C1_AtMostTwoActive ==
    \A p \in DOMAIN clientPlan : Cardinality(ActiveOf(p)) <= 2

\* A plan has 2 active beneficiaries and clean has just rejected one more.
C1_Witness ==
    /\ lastOp.op = "clean"
    /\ lastOp.result = ValidationError1
    /\ Cardinality(ActiveOf(lastOp.obj.client_plan)) = 2

\* C2: no client plan ever has two rows that are both primary and active,
\* whatever the callers do (validated or not, interleaved or not): the
\* storage refuses the write that would add the second.
C2_AtMostOneActivePrimary ==
    \A p \in DOMAIN clientPlan : Cardinality(ActivePrimaryOf(p)) <= 1

\* A caller passed clean, another caller's active primary was committed in
\* between, and the storage refused the first caller's save.
C2_Witness ==
    /\ lastOp.result = "IntegrityError"
    /\ lastOp.validated
    /\ \E p \in DOMAIN clientPlan : Cardinality(ActivePrimaryOf(p)) = 1

\* C3: two callers that both validate and then insert an active beneficiary
\* under one client plan never leave the plan with more than 2 active
\* beneficiaries, however their steps interleave.
C3_NoRacePastTheLimit ==
    (lastOp.op = "insert" /\ lastOp.validated /\ lastOp.result = "ok")
        => \A p \in DOMAIN clientPlan : ~(Cardinality(ActiveOf(p)) > 2)

\* C4: a committed save of a beneficiary is always one whose instance passed
\* the two checks of clean.
C4_CommittedWritesAreValidated ==
    (lastOp.op \in {"insert", "update"} /\ lastOp.result = "ok") => lastOp.validated

\* C5: clean raises the maximum-of-2 error exactly when the instance is
\* active and 2 or more other active beneficiaries share its client plan; an
\* inactive instance is never rejected; a rejection changes no stored row.
C5_RejectionCondition ==
    /\ (lastOp.op = "clean" /\ lastOp.result = ValidationError1)
           => (lastOp.obj.is_active /\ Cardinality(OtherActive(lastOp.obj)) >= 2)
    /\ (lastOp.op = "clean" /\ lastOp.result = ValidationError2)
           => (lastOp.obj.is_active /\ Cardinality(OtherActive(lastOp.obj)) < 2)
    /\ \A obj \in BagToSet(pending) :
           ~(obj.is_active /\ Cardinality(OtherActive(obj)) >= 2)

C5_RejectionLeavesRows ==
    (lastOp'.op = "clean" /\ lastOp'.result # "ok")
        => clientBeneficiary' = clientBeneficiary

C5_MaxActiveGuard == []C5_RejectionCondition /\ [][C5_RejectionLeavesRows]_vars

\* Clean has just rejected the insert of a third active beneficiary.
C5_Witness ==
    /\ lastOp.op = "clean"
    /\ lastOp.result = ValidationError1
    /\ lastOp.obj.pk = NULL
    /\ Cardinality(DOMAIN clientBeneficiary) = 2

\* C6: the validated insert of an active primary beneficiary fails while the
\* client plan has an active primary beneficiary, and succeeds (passes clean
\* and is committed) when it has none and fewer than 2 active beneficiaries.
C6_SecondPrimary ==
    /\ \A obj \in BagToSet(pending) :
           (obj.pk = NULL /\ obj.is_active /\ obj.is_primary)
               => ActivePrimaryOf(obj.client_plan) = {}
    /\ LET obj == lastOp.obj IN
       (lastOp.op = "clean" /\ lastOp.result # "ok"
        /\ obj.pk = NULL /\ obj.is_active /\ obj.is_primary)
           => \/ ActivePrimaryOf(obj.client_plan) # {}
              \/ Cardinality(ActiveOf(obj.client_plan)) >= 2
    /\ (lastOp.op = "insert" /\ lastOp.validated) => lastOp.result = "ok"

\* A plan's first primary was deactivated and the insert of a second active
\* primary has just been committed.
C6_Witness ==
    /\ lastOp.op = "insert" /\ lastOp.validated /\ lastOp.result = "ok"
    /\ \E j, k \in DOMAIN clientBeneficiary :
          /\ j < k
          /\ k = Max(DOMAIN clientBeneficiary)
          /\ clientBeneficiary[j].client_plan = clientBeneficiary[k].client_plan
          /\ clientBeneficiary[j].is_primary /\ ~clientBeneficiary[j].is_active
          /\ clientBeneficiary[k].is_primary /\ clientBeneficiary[k].is_active

\* The rows of table under the keys in keys.
Kept(table, keys) == [k \in keys |-> table[k]]

\* C7: a delete follows the on_delete policy of each foreign key.  A plan that
\* a client plan references is never deleted and the refused delete changes
\* no row; the delete of a client removes exactly the client's plans, the
\* beneficiaries and lifecycle events of those plans and the transfers to the
\* client; the delete of a company removes its branches; the delete of a
\* personnel keeps every client plan and nulls the agent and collector that
\* referenced it; the delete of a branch changes no client plan.
C7_Step ==
    /\ \A p \in DOMAIN plan :
          {key \in DOMAIN clientPlan : clientPlan[key].plan = p} # {} => p \in DOMAIN plan'
    /\ lastOp'.result = "ProtectedError" => tables' = tables
    /\ \A c \in DOMAIN client \ DOMAIN client' :
          /\ clientPlan' = Kept(clientPlan, {key \in DOMAIN clientPlan : clientPlan[key].client # c})
          /\ clientBeneficiary' =
                 Kept(clientBeneficiary,
                      {key \in DOMAIN clientBeneficiary :
                          clientPlan[clientBeneficiary[key].client_plan].client # c})
          /\ clientPlanReinstatement' =
                 Kept(clientPlanReinstatement,
                      {key \in DOMAIN clientPlanReinstatement :
                          clientPlan[clientPlanReinstatement[key].client_plan].client # c})
          /\ clientPlanLapse' =
                 Kept(clientPlanLapse,
                      {key \in DOMAIN clientPlanLapse :
                          clientPlan[clientPlanLapse[key].client_plan].client # c})
          /\ clientPlanTransfer' =
                 Kept(clientPlanTransfer,
                      {key \in DOMAIN clientPlanTransfer :
                          /\ clientPlan[clientPlanTransfer[key].from_client_plan].client # c
                          /\ clientPlanTransfer[key].to_client # c})
          /\ UNCHANGED <<company, branch, personnel, plan>>
    /\ \A c \in DOMAIN company \ DOMAIN company' :
          /\ \A b \in DOMAIN branch' : branch'[b].company # c
          /\ clientPlan' = clientPlan
    /\ \A x \in DOMAIN personnel \ DOMAIN personnel' :
          /\ DOMAIN clientPlan' = DOMAIN clientPlan
          /\ \A k \in DOMAIN clientPlan :
                /\ clientPlan'[k].agent = IF clientPlan[k].agent = x THEN NULL ELSE clientPlan[k].agent
                /\ clientPlan'[k].collector =
                       IF clientPlan[k].collector = x THEN NULL ELSE clientPlan[k].collector
                /\ clientPlan'[k].client = clientPlan[k].client
                /\ clientPlan'[k].plan = clientPlan[k].plan
                /\ clientPlan'[k].branch = clientPlan[k].branch
                /\ clientPlan'[k].status = clientPlan[k].status
    /\ DOMAIN branch' # DOMAIN branch => clientPlan' = clientPlan

C7_DeletionPolicy == [][C7_Step]_vars

\* The delete of a plan that a client plan references has just been refused,
\* in a database that also holds a beneficiary and a lifecycle event.
C7_Witness ==
    /\ lastOp.op = "delete_plan"
    /\ lastOp.result = "ProtectedError"
    /\ clientPlan # EmptyTable
    /\ clientBeneficiary # EmptyTable
    /\ clientPlanLapse # EmptyTable

\* C8: a step that adds a lapse, reinstatement or transfer row changes no
\* client plan; a new client plan has status active; a status changes only
\* in a status update; and from every status a status update to each of the
\* seven statuses is possible and is not refused.
C8_Step ==
    /\ (\/ DOMAIN clientPlanLapse' \ DOMAIN clientPlanLapse # {}
        \/ DOMAIN clientPlanReinstatement' \ DOMAIN clientPlanReinstatement # {}
        \/ DOMAIN clientPlanTransfer' \ DOMAIN clientPlanTransfer # {})
           => clientPlan' = clientPlan
    /\ \A k \in DOMAIN clientPlan' \ DOMAIN clientPlan : clientPlan'[k].status = "active"
    /\ \A k \in DOMAIN clientPlan' \cap DOMAIN clientPlan :
          clientPlan'[k].status # clientPlan[k].status => lastOp'.op = "set_status"
    /\ lastOp'.op = "set_status" => lastOp'.result = "ok"

C8_AnyStatusFromAny ==
    \A cp \in DOMAIN clientPlan, s \in ClientPlanStatus :
        ENABLED (SetStatus(cp, s) /\ clientPlan'[cp].status = s)

C8_StatusOnlyByCaller == [][C8_Step]_vars /\ []C8_AnyStatusFromAny

\* A lapse row has just been created for a client plan whose status the
\* caller had set to completed, and the status is still completed.
C8_Witness ==
    /\ lastOp.op = "create_lapse"
    /\ \E k \in DOMAIN clientPlanLapse :
          clientPlan[clientPlanLapse[k].client_plan].status = "completed"

\* C9 as stated: no step changes or removes a lifecycle-event row.
C9_Kept(table, table2) ==
    \A k \in DOMAIN table : k \in DOMAIN table2 /\ table2[k] = table[k]

C9_StepAmended ==
    /\ \A k \in DOMAIN clientPlanReinstatement :
          IF k \in DOMAIN clientPlanReinstatement'
          THEN clientPlanReinstatement'[k] # clientPlanReinstatement[k]
                   => lastOp'.op = "update_reinstatement"
          ELSE \/ lastOp'.op = "delete_reinstatement"
               \/ clientPlanReinstatement[k].client_plan \notin DOMAIN clientPlan'
    /\ \A k \in DOMAIN clientPlanLapse :
          IF k \in DOMAIN clientPlanLapse'
          THEN clientPlanLapse'[k] # clientPlanLapse[k] => lastOp'.op = "update_lapse"
          ELSE \/ lastOp'.op = "delete_lapse"
               \/ clientPlanLapse[k].client_plan \notin DOMAIN clientPlan'
    /\ \A k \in DOMAIN clientPlanTransfer :
          IF k \in DOMAIN clientPlanTransfer'
          THEN clientPlanTransfer'[k] # clientPlanTransfer[k] => lastOp'.op = "update_transfer"
          ELSE \/ lastOp'.op = "delete_transfer"
               \/ clientPlanTransfer[k].from_client_plan \notin DOMAIN clientPlan'
               \/ clientPlanTransfer[k].to_client \notin DOMAIN client'

C10_Expected(p) ==
    p.first_name
    \o (IF p.middle_name.null \/ Len(p.middle_name.chars) = 0
        THEN <<>>
        ELSE <<" ">> \o p.middle_name.chars)
    \o <<" ">> \o p.last_name

\* C10: after a save, full_name is first, middle (unless None or empty) and
\* last name joined by single spaces, whatever it was before; a second save
\* with the same parts leaves it as it is; ("a", "", "a a") gives "a a a".
C10_Saved ==
    lastOp.op \in {"save_person", "save_person_again"}
        => /\ person.full_name = C10_Expected(person)
           /\ (person.first_name = <<"a">> /\ person.middle_name = Some(<<>>)
               /\ person.last_name = <<"a", " ", "a">>)
                  => person.full_name = <<"a", " ", "a", " ", "a">>

C10_SavedAgain ==
    (lastOp.op = "save_person" /\ lastOp'.op = "save_person_again")
        => person'.full_name = person.full_name

C10_FullName == []C10_Saved /\ [][C10_SavedAgain]_vars

\* The instance with an empty middle name and a two-word last name was saved
\* twice.
C10_Witness ==
    /\ lastOp.op = "save_person_again"
    /\ person.first_name = <<"a">> /\ person.middle_name = Some(<<>>)
    /\ person.last_name = <<"a", " ", "a">>
    /\ person.full_name = <<"a", " ", "a", " ", "a">>

====
